---- MODULE Spec2Model ----
(***************************************************************************)
(* Model of ImprovedTaskQueue (src/main/core/task_queue.py): a priority    *)
(* task queue served by asyncio worker coroutines.                         *)
(*                                                                         *)
(* Scheduling model.  Everything runs on one asyncio event loop, so code   *)
(* between two suspension points is one atomic step.  The locks _lock and  *)
(* _stats_lock are never held across a suspension, so acquiring them never *)
(* suspends.  A worker suspends in pending_queue.get() on an empty queue,  *)
(* in a payload that awaits, and in asyncio.sleep(1) of its error handler. *)
(* One action is one worker-loop iteration up to its next suspension.      *)
(*                                                                         *)
(* pending_queue is asyncio.PriorityQueue: a list kept by heapq (the C     *)
(* implementation of CPython), holding tuples (-priority, task_info).      *)
(* TaskInfo defines == but no <, so comparing two entries of equal         *)
(* priority raises TypeError inside heappush / heappop.                    *)
(***************************************************************************)
EXTENDS Integers, Sequences, FiniteSets, TLC

\* ---- bounds of the model -------------------------------------------------
MaxTasks == 2          \* task records created in Spec
MaxDispatchTasks == 7  \* task records created in SpecDispatch
MaxRestartTasks == 3   \* task records created in SpecRestart
MaxProgressTasks == 3  \* task records created in SpecProgress
MaxPriority == 1       \* callers of Spec use priorities 0..MaxPriority
MaxLingering == 0      \* workers of an earlier start() still unwinding
                       \* when start() is called again
MaxQueueSize == 2      \* queue_max_size is 1..MaxQueueSize
MaxWaitTimeout == 1    \* wait_for_task timeouts are None, 0..MaxWaitTimeout,
                       \* counted in sleeps of 0.1 s
MaxWaitPolls == 2      \* sleeps of one wait_for_task call
MaxMonitors == 1       \* _adaptive_monitor coroutines alive together
MaxWorkers == 2        \* max_workers of the global task_queue

\* resource usage is a fraction in thousandths (psutil reports percent with
\* one decimal); on these values the float comparisons of the source agree
\* with the integer comparisons below
MemoryThreshold == 900 \* _memory_threshold = 0.9
CpuThreshold == 800    \* _cpu_threshold = 0.8
MinConcurrency == 1    \* _min_concurrency
MaxConcurrency == 10   \* _max_concurrency
UpscaleEnable == TRUE  \* _upscale_enable

MaxOf(a, b) == IF a > b THEN a ELSE b
MaxIds == MaxOf(MaxOf(MaxTasks, MaxProgressTasks),
               MaxOf(MaxDispatchTasks, MaxRestartTasks))
TaskIds == 1..MaxIds
NoTask == 0
Procs == 1..(MaxWorkers + MaxLingering)
Priorities == 0..MaxPriority
DispatchPriorities == 1..3
StopCalls == 1..2      \* calls of stop() that can be in progress together

\* the coroutines of the statement view: the workers, and one caller of each
\* public method
CallerOps == <<"add_task", "get_task_status", "get_queue_stats",
               "cancel_task", "clear_completed_tasks">>
CallerProcs ==
  (MaxWorkers + MaxLingering + 1)..(MaxWorkers + MaxLingering + Len(CallerOps))
OpOf(c) == CallerOps[c - (MaxWorkers + MaxLingering)]
Coros == Procs \cup CallerProcs
OpOfCoro(c) == IF c \in Procs THEN "_worker" ELSE OpOf(c)
NoProc == 0
Locks == {"_lock", "_stats_lock"}

VARIABLES
  max_workers,      \* constructor argument
  queue_max_size,   \* constructor argument
  payload_kinds,    \* what the payloads callers submit do when invoked
  stop_callers,     \* the calls of stop() the callers make use of
  usage_levels,     \* the <<memory, cpu>> usage the probes can report
  current_concurrency, \* self._current_concurrency
  concurrency_limiter, \* free slots of self._concurrency_limiter
  monitors,         \* _adaptive_monitor coroutines suspended in sleep(30)
  monitors_created, \* _adaptive_monitor coroutines start() created that
                    \* have not run yet
  is_running,
  heap,             \* pending_queue._queue: sequence of task ids, heap ordered
  unfinished,       \* pending_queue._unfinished_tasks
  getters,          \* pending_queue._getters: workers blocked in get()
  task,             \* every TaskInfo ever constructed, by id
  nextId,           \* the next uuid4
  running_tasks,    \* keys of self.running_tasks
  completed_tasks,  \* keys of self.completed_tasks
  stats,
  workers,          \* self.workers
  wpc,              \* position of each worker coroutine
  wtask,            \* task_info local of each worker
  wcancel,          \* Task.cancel() requested and not yet delivered
  woken,            \* the worker's getter future has a result
  stopWait,         \* per stop() call: workers its gather still waits for
  stopping,         \* per stop() call: "idle", or where it is suspended
  waiter,           \* a caller's wait_for_task call: locals and position
  lock_owner,       \* statement view: the coroutine holding each asyncio.Lock
  lock_waiters,     \* statement view: Lock._waiters of each lock, in order
  lpc,              \* statement view: the statement each coroutine is at
  running_coro,     \* statement view: the coroutine the event loop is running
  issued,           \* history: ids that add_task returned
  cancelled_pending,\* history: ids whose cancel returned True while Pending
  invoked,          \* history: number of payload invocations per task
  discarded         \* history: ids a worker dequeued and skipped

cfgVars == <<max_workers, queue_max_size, payload_kinds, stop_callers,
             usage_levels>>
govVars == <<current_concurrency, concurrency_limiter, monitors,
             monitors_created>>
lockVars == <<lock_owner, lock_waiters, lpc, running_coro>>
queueVars == <<heap, unfinished, getters>>
regVars == <<task, nextId, running_tasks, completed_tasks, stats>>
workerVars == <<workers, wpc, wtask, wcancel, woken>>
stopVars == <<stopWait, stopping>>
histVars == <<issued, cancelled_pending, invoked, discarded>>
vars == <<cfgVars, govVars, lockVars, is_running, queueVars, regVars,
          workerVars, stopVars, waiter, histVars>>

Terminal == {"completed", "failed", "cancelled"}

NoInfo == [status |-> "none", priority |-> 0, started_at |-> FALSE,
           completed_at |-> FALSE, result |-> "none", error |-> "none"]

NewTaskInfo(p) == [status |-> "pending", priority |-> p, started_at |-> FALSE,
                   completed_at |-> FALSE, result |-> "none", error |-> "none"]

\* ---- heapq on tuples (-priority, task_info) -------------------------------
\* Positions are 0-based as in the C source; h[i + 1] is the item at i.
At(h, i) == h[i + 1]

Swap(h, i, j) == [h EXCEPT ![i + 1] = h[j + 1], ![j + 1] = h[i + 1]]

\* tuple comparison a < b: "lt", "ge", or "error" (TypeError on a tie)
TupleLt(pr, a, b) ==
  IF -pr[a] < -pr[b] THEN "lt"
  ELSE IF -pr[a] > -pr[b] THEN "ge"
  ELSE "error"

RECURSIVE siftdown(_, _, _, _)
siftdown(pr, h, startpos, pos) ==
  IF pos > startpos
  THEN LET parentpos == (pos - 1) \div 2
           cmp == TupleLt(pr, At(h, pos), At(h, parentpos))
       IN  CASE cmp = "error" -> [heap |-> h, ok |-> FALSE]
             [] cmp = "ge"    -> [heap |-> h, ok |-> TRUE]
             [] OTHER         -> siftdown(pr, Swap(h, pos, parentpos),
                                          startpos, parentpos)
  ELSE [heap |-> h, ok |-> TRUE]

RECURSIVE siftup_loop(_, _, _, _)
siftup_loop(pr, h, startpos, pos) ==
  LET endpos == Len(h)
      limit == endpos \div 2
      left == 2 * pos + 1
  IN  IF pos < limit
      THEN LET cmp == IF left + 1 < endpos
                      THEN TupleLt(pr, At(h, left), At(h, left + 1))
                      ELSE "lt"
               childpos == IF cmp = "lt" THEN left ELSE left + 1
           IN  IF cmp = "error"
               THEN [heap |-> h, ok |-> FALSE]
               ELSE siftup_loop(pr, Swap(h, pos, childpos), startpos, childpos)
      ELSE siftdown(pr, h, startpos, pos)

siftup(pr, h, pos) == siftup_loop(pr, h, pos, pos)

\* heappush: the item is appended before it is sifted, so it stays in the
\* list when the sift raises.
heappush(pr, h, t) ==
  LET h1 == Append(h, t)
  IN  siftdown(pr, h1, 0, Len(h1) - 1)

\* mutant of heappop: the root is returned and left in the heap
heappop_Peek(pr, h) == [item |-> h[1], heap |-> h, ok |-> TRUE]

\* heappop of a non-empty heap: when the sift raises, the root that was to
\* be returned has already been overwritten and is dropped.
heappop(pr, h) ==
  LET n == Len(h)
      lastelt == h[n]
      h1 == SubSeq(h, 1, n - 1)
  IN  IF n - 1 = 0
      THEN [item |-> lastelt, heap |-> h1, ok |-> TRUE]
      ELSE LET r == siftup(pr, [h1 EXCEPT ![1] = lastelt], 0)
           IN  [item |-> h1[1], heap |-> r.heap, ok |-> r.ok]

PrioOf(tk) == [t \in TaskIds |-> tk[t].priority]

\* ---- asyncio.Queue helpers ------------------------------------------------
RECURSIVE FirstLive(_, _)
\* index of the first getter whose future is not done (not cancelled), or 0
FirstLive(g, i) ==
  IF i > Len(g) THEN 0
  ELSE IF ~wcancel[g[i]] THEN i
  ELSE FirstLive(g, i + 1)

\* Queue._wakeup_next(self._getters)
WakeupGetters(g) ==
  LET i == FirstLive(g, 1)
  IN  IF i = 0 THEN <<>> ELSE SubSeq(g, i + 1, Len(g))

WakeupWoken(g, wk) ==
  LET i == FirstLive(g, 1)
  IN  IF i = 0 THEN wk ELSE [wk EXCEPT ![g[i]] = TRUE]

RemoveGetter(g, w) == SelectSeq(g, LAMBDA x : x # w)

HeapSet(h) == {h[i] : i \in 1..Len(h)}

\* Python values: None, a number, a dict made by asdict()
PyNone == <<>>

PyInt(n) == <<n>>

PyDict(d) == <<d>>

\* no wait_for_task call has been made
NoWait == [pc |-> "idle", task_id |-> NoTask, timeout |-> PyNone,
           elapsed |-> 0, returned |-> PyNone]

\* ---- construction ---------------------------------------------------------
PayloadKinds == {"return", "raise", "suspend"}

\* usage that is neither above a threshold nor below the low-water marks
SteadyUsage == {<<700, 600>>}

InitWith(mw, cap, kinds, callers, levels) ==
  /\ max_workers = mw
  /\ queue_max_size = cap
  /\ payload_kinds = kinds
  /\ stop_callers = callers
  /\ usage_levels = levels
  /\ current_concurrency = mw
  /\ concurrency_limiter = mw
  /\ monitors = 0
  /\ monitors_created = 0
  /\ is_running = FALSE
  /\ heap = <<>>
  /\ unfinished = 0
  /\ getters = <<>>
  /\ task = [t \in TaskIds |-> NoInfo]
  /\ nextId = 1
  /\ running_tasks = {}
  /\ completed_tasks = {}
  /\ stats = [total_tasks |-> 0, completed_tasks |-> 0, failed_tasks |-> 0,
              cancelled_tasks |-> 0]
  /\ workers = {}
  /\ wpc = [w \in Procs |-> "none"]
  /\ wtask = [w \in Procs |-> NoTask]
  /\ wcancel = [w \in Procs |-> FALSE]
  /\ woken = [w \in Procs |-> FALSE]
  /\ stopWait = [c \in StopCalls |-> {}]
  /\ stopping = [c \in StopCalls |-> "idle"]
  /\ waiter = NoWait
  /\ lock_owner = [l \in Locks |-> NoProc]
  /\ lock_waiters = [l \in Locks |-> <<>>]
  /\ lpc = [c \in Coros |-> "none"]
  /\ running_coro = NoProc
  /\ issued = {}
  /\ cancelled_pending = {}
  /\ invoked = [t \in TaskIds |-> 0]
  /\ discarded = {}

Init ==
  \E cap \in 1..MaxQueueSize : InitWith(MaxWorkers, cap, PayloadKinds, {1}, SteadyUsage)

\* ---- start / stop ---------------------------------------------------------
\* coroutine slots that hold no live coroutine
FreshProcs == {p \in Procs : wpc[p] \in {"none", "done"}}

\* the coroutines start() creates: max_workers free slots
NewWorkers ==
  {p \in FreshProcs : Cardinality({q \in FreshProcs : q < p}) < max_workers}

start ==
  IF is_running
  THEN UNCHANGED vars
  ELSE /\ Cardinality(FreshProcs) >= max_workers
       /\ is_running' = TRUE
       /\ workers' = NewWorkers
       /\ wpc' = [w \in Procs |-> IF w \in NewWorkers THEN "ready" ELSE wpc[w]]
       /\ wtask' = [w \in Procs |-> IF w \in NewWorkers THEN NoTask
                                    ELSE wtask[w]]
       /\ monitors + monitors_created < MaxMonitors
       /\ monitors_created' = monitors_created + 1
       /\ UNCHANGED <<cfgVars, lockVars, current_concurrency, concurrency_limiter,
                      monitors,
                      waiter, queueVars, regVars, wcancel, woken, stopVars,
                      histVars>>

\* a worker coroutine has ended: every gather that holds it sees it done
Unwait(w) == [c \in StopCalls |-> stopWait[c] \ {w}]

\* call c of stop(), up to its await
stop(c) ==
  /\ stopping[c] = "idle"
  /\ IF ~is_running
     THEN UNCHANGED vars
     ELSE /\ is_running' = FALSE
          /\ wcancel' = [w \in Procs |->
                           IF w \in workers /\ wpc[w] # "done"
                           THEN TRUE ELSE wcancel[w]]
          /\ stopWait' = [stopWait EXCEPT
                            ![c] = {w \in workers : wpc[w] # "done"}]
          /\ stopping' = [stopping EXCEPT ![c] = "waiting"]
          /\ UNCHANGED <<cfgVars, lockVars, govVars, waiter, queueVars, regVars, workers, wpc, wtask,
                         woken, histVars>>

\* asyncio.wait_for reaches its timeout: it cancels the gather, which
\* cancels every worker that is not done, and keeps waiting for the gather
stop_timeout(c) ==
  /\ stopping[c] = "waiting"
  /\ stopWait[c] # {}
  /\ stopping' = [stopping EXCEPT ![c] = "timed_out"]
  /\ wcancel' = [w \in Procs |->
                   IF w \in stopWait[c] THEN TRUE ELSE wcancel[w]]
  /\ UNCHANGED <<cfgVars, lockVars, govVars, waiter, is_running, queueVars, regVars, workers, wpc,
                 wtask, woken, stopWait, histVars>>

\* the gather is done: stop() returns
stop_return(c) ==
  /\ stopping[c] # "idle"
  /\ stopWait[c] = {}
  /\ stopping' = [stopping EXCEPT ![c] = "idle"]
  /\ UNCHANGED <<cfgVars, lockVars, govVars, waiter, is_running, queueVars, regVars, workerVars,
                 stopWait, histVars>>

\* ---- _adaptive_monitor -----------------------------------------------------
MinOf(a, b) == IF a < b THEN a ELSE b

\* mutant of Overloaded: both thresholds must be exceeded
Overloaded_Both(memory_usage, cpu_usage) ==
  memory_usage > MemoryThreshold /\ cpu_usage > CpuThreshold

\* "memory_usage > self._memory_threshold or cpu_usage > self._cpu_threshold"
Overloaded(memory_usage, cpu_usage) ==
  memory_usage > MemoryThreshold \/ cpu_usage > CpuThreshold

\* mutant of HasWork: only the pending store is looked at
HasWork_PendingOnly == Len(heap) > 0

\* "pending_size > 0 or running_count > 0"
HasWork == Len(heap) > 0 \/ Cardinality(running_tasks) > 0

\* "memory_usage < self._memory_threshold * 0.7 and
\*  cpu_usage < self._cpu_threshold * 0.7"
LowUsage(memory_usage, cpu_usage) ==
  /\ memory_usage * 10 < MemoryThreshold * 7
  /\ cpu_usage * 10 < CpuThreshold * 7

\* _adjust_concurrency: the concurrency it decides on for the sampled usage
\* (the current one when it returns early)
adjust_concurrency(memory_usage, cpu_usage) ==
  IF Overloaded(memory_usage, cpu_usage)
  THEN MaxOf(MinConcurrency, current_concurrency - 1)
  ELSE IF HasWork /\ UpscaleEnable /\ LowUsage(memory_usage, cpu_usage)
  THEN MinOf(MaxConcurrency, current_concurrency + 1)
  ELSE current_concurrency

\* A monitor that start() created runs for the first time: it tests
\* is_running and suspends in sleep(30), or ends when the engine was stopped
\* before it ran.
adaptive_monitor_enter ==
  /\ monitors_created > 0
  /\ monitors_created' = monitors_created - 1
  /\ monitors' = IF is_running THEN monitors + 1 ELSE monitors
  /\ UNCHANGED <<current_concurrency, concurrency_limiter, workerVars,
                 queueVars, regVars, is_running, stopVars, waiter, histVars,
                 cfgVars, lockVars>>

\* One monitor wakes from sleep(30), samples the usage and adjusts; then it
\* sleeps again, or leaves its loop when the engine was stopped meanwhile.
\* _update_concurrency replaces the semaphore by one with the new value.
adaptive_monitor(memory_usage, cpu_usage) ==
  /\ monitors > 0
  /\ LET new_concurrency == adjust_concurrency(memory_usage, cpu_usage)
     IN  IF new_concurrency # current_concurrency
         THEN /\ current_concurrency' = new_concurrency
              /\ concurrency_limiter' = new_concurrency
         ELSE UNCHANGED <<current_concurrency, concurrency_limiter>>
  /\ monitors' = IF is_running THEN monitors ELSE monitors - 1
  /\ UNCHANGED <<monitors_created, workerVars, queueVars, regVars, is_running, stopVars,
                 waiter, histVars, cfgVars, lockVars>>

\* ---- _get_memory_usage / _get_cpu_usage -----------------------------------
\* What a probe does when called: psutil reports `value` (in thousandths), or
\* the import raises ImportError, or the psutil call raises an Exception.
Sampled(value) == [raises |-> "none", value |-> value]

Raising(exc) == [raises |-> exc, value |-> 0]

\* _get_memory_usage: both except clauses return 0.5
get_memory_usage(probe) ==
  CASE probe.raises = "none" -> probe.value
    [] probe.raises = "ImportError" -> 500
    [] OTHER -> 500

\* mutant of get_cpu_usage: the fallback is a value above the threshold
get_cpu_usage_HighDefault(probe) ==
  IF probe.raises = "none" THEN probe.value ELSE 900

\* _get_cpu_usage: both except clauses return 0.3
get_cpu_usage(probe) ==
  CASE probe.raises = "none" -> probe.value
    [] probe.raises = "ImportError" -> 300
    [] OTHER -> 300

\* one pass of the loop of _adaptive_monitor with the probes called
monitor_tick(memory_probe, cpu_probe) ==
  adaptive_monitor(get_memory_usage(memory_probe), get_cpu_usage(cpu_probe))

\* ---- add_task -------------------------------------------------------------
\* how a call add_task(priority = p) ends in the current state: an id is
\* returned ("ok"), or TaskQueueError ("not_running", "queue_full") or the
\* TypeError of put_nowait ("type_error") is raised
\* mutant of QueueFull: the capacity test is off by one
QueueFull_OffByOne == Len(heap) > queue_max_size

\* the test "self.pending_queue.qsize() >= self.queue_max_size"
QueueFull == Len(heap) >= queue_max_size

\* mutant of Register: the record is not entered in running_tasks
Register_Forgotten(id) == running_tasks

\* self.running_tasks[task_id] = task_info
Register(id) == running_tasks \cup {id}

AddTaskOutcome(p) ==
  IF ~is_running THEN "not_running"
  ELSE IF QueueFull THEN "queue_full"
  ELSE IF nextId \notin TaskIds THEN "out_of_ids"
  ELSE IF heappush(PrioOf([task EXCEPT ![nextId] = NewTaskInfo(p)]),
                   heap, nextId).ok
  THEN "ok"
  ELSE "type_error"

add_task(p) ==
  IF ~is_running
  THEN UNCHANGED vars
  ELSE IF QueueFull
  THEN UNCHANGED vars
  ELSE /\ nextId \in TaskIds
       /\ LET id == nextId
              tk == [task EXCEPT ![id] = NewTaskInfo(p)]
              r == heappush(PrioOf(tk), heap, id)
          IN  /\ task' = tk
              /\ nextId' = nextId + 1
              /\ heap' = r.heap
              /\ IF r.ok
                 THEN /\ unfinished' = unfinished + 1
                      /\ getters' = WakeupGetters(getters)
                      /\ woken' = WakeupWoken(getters, woken)
                      /\ running_tasks' = Register(id)
                      /\ issued' = issued \cup {id}
                 ELSE \* put_nowait raised TypeError out of add_task
                      UNCHANGED <<unfinished, getters, woken,
                                  running_tasks, issued>>
       /\ UNCHANGED <<cfgVars, lockVars, govVars, waiter, is_running, completed_tasks, stats, workers,
                      wpc, wtask, wcancel, stopVars, cancelled_pending,
                      invoked, discarded>>

\* ---- queries --------------------------------------------------------------
\* get_task_status: the record, or NoInfo for None
get_task_status(id) ==
  IF id \in running_tasks THEN task[id]
  ELSE IF id \in completed_tasks THEN task[id]
  ELSE NoInfo

\* get_queue_stats: the dict it returns
get_queue_stats ==
  [pending_tasks |-> Len(heap),
   running_tasks |-> Cardinality(running_tasks),
   completed_tasks |-> Cardinality(completed_tasks),
   workers |-> Cardinality(workers),
   stats |-> stats]

\* ---- wait_for_task ---------------------------------------------------------
\* the test "timeout and (time.time() - start_time) >= timeout": None and 0
\* are both false as a condition
WaitTimedOut(timeout, elapsed) ==
  /\ timeout # PyNone
  /\ timeout # PyInt(0)
  /\ elapsed >= timeout[1]

\* one pass of the loop of wait_for_task, `elapsed` after start_time: the
\* call returns, or it suspends in asyncio.sleep(0.1)
wait_poll(id, timeout, elapsed) ==
  LET status == get_task_status(id)
      call == [pc |-> "sleeping", task_id |-> id, timeout |-> timeout,
               elapsed |-> elapsed, returned |-> PyNone]
  IN  IF status = NoInfo
      THEN [call EXCEPT !.pc = "returned"]
      ELSE IF status.status \in Terminal
      THEN [call EXCEPT !.pc = "returned", !.returned = PyDict(status)]
      ELSE IF WaitTimedOut(timeout, elapsed)
      THEN [call EXCEPT !.pc = "returned"]
      ELSE call

\* a caller calls wait_for_task(id, timeout): up to the first suspension
wait_for_task(id, timeout) ==
  /\ waiter.pc # "sleeping"
  /\ waiter' = wait_poll(id, timeout, 0)
  /\ UNCHANGED <<cfgVars, lockVars, govVars, is_running, queueVars, regVars,
                 workerVars, stopVars, histVars>>

\* asyncio.sleep(0.1) is over: the next pass of the loop
wait_for_task_wakeup ==
  /\ waiter.pc = "sleeping"
  /\ waiter.elapsed < MaxWaitPolls
  /\ waiter' = wait_poll(waiter.task_id, waiter.timeout, waiter.elapsed + 1)
  /\ UNCHANGED <<cfgVars, lockVars, govVars, is_running, queueVars, regVars,
                 workerVars, stopVars, histVars>>

\* ---- cancel_task ----------------------------------------------------------
\* mutant of CancelReturns: finished tasks are cancelled as well
CancelReturns_Finished(id) == id \in running_tasks \cup completed_tasks

\* the value cancel_task(id) returns in the current state
CancelReturns(id) == id \in running_tasks

cancel_task(id) ==
  IF CancelReturns(id)
  THEN /\ task' = [task EXCEPT ![id].status = "cancelled",
                               ![id].completed_at = TRUE]
       /\ completed_tasks' = completed_tasks \cup {id}
       /\ running_tasks' = running_tasks \ {id}
       /\ stats' = [stats EXCEPT !.cancelled_tasks = @ + 1,
                                 !.total_tasks = @ + 1]
       /\ cancelled_pending' = IF task[id].status = "pending"
                               THEN cancelled_pending \cup {id}
                               ELSE cancelled_pending
       /\ UNCHANGED <<cfgVars, lockVars, govVars, waiter, is_running, queueVars, nextId, workerVars,
                      stopVars, issued, invoked, discarded>>
  ELSE UNCHANGED vars

\* ---- clear_completed_tasks(older_than=None) --------------------------------
\* mutant of clear_completed_tasks: the running set is cleared as well
clear_completed_tasks_Both ==
  /\ completed_tasks' = {}
  /\ running_tasks' = {}
  /\ UNCHANGED <<cfgVars, lockVars, govVars, waiter, is_running, queueVars, task, nextId,
                 stats, workerVars, stopVars, histVars>>

clear_completed_tasks ==
  /\ completed_tasks' = {}
  /\ UNCHANGED <<cfgVars, lockVars, govVars, waiter, is_running, queueVars, task, nextId, running_tasks,
                 stats, workerVars, stopVars, histVars>>

\* clear_completed_tasks(older_than = x): `expired` are the records of
\* completed_tasks whose completed_at lies more than x seconds back
clear_completed_tasks_older_than(expired) ==
  /\ expired \subseteq completed_tasks
  /\ completed_tasks' = completed_tasks \ expired
  /\ UNCHANGED <<cfgVars, lockVars, govVars, waiter, is_running, queueVars, task, nextId, running_tasks,
                 stats, workerVars, stopVars, histVars>>

\* what a call of clear_completed_tasks returns, in both branches: the
\* function has no return statement
clear_completed_tasks_returns == PyNone

\* ---- _worker --------------------------------------------------------------
\* pending_queue.task_done() raises ValueError when nothing is unfinished
TaskDoneRaises == unfinished <= 0

TaskDone == IF TaskDoneRaises THEN unfinished ELSE unfinished - 1

\* The worker from the end of _execute_task (outcome "return" or "raise") to
\* the end of the iteration, on the records tk.  del self.running_tasks[id]
\* raises KeyError when cancel_task removed the key meanwhile: inside the try
\* it sends the success path into the except block, inside the except block
\* it leaves for the outer handler, which sleeps.
Terminate(w, t, tk, outcome) ==
  LET keyError == t \notin running_tasks
      tk1 == IF outcome = "return"
             THEN [tk EXCEPT ![t].status = "completed",
                             ![t].completed_at = TRUE,
                             ![t].result = "value"]
             ELSE tk
      tk2 == IF outcome = "raise" \/ keyError
             THEN [tk1 EXCEPT ![t].status = "failed",
                              ![t].completed_at = TRUE,
                              ![t].error = IF outcome = "raise"
                                           THEN "payload_error"
                                           ELSE "KeyError"]
             ELSE tk1
  IN  /\ task' = tk2
      /\ completed_tasks' = completed_tasks \cup {t}
      /\ running_tasks' = running_tasks \ {t}
      /\ stats' = IF keyError THEN stats
                  ELSE IF outcome = "return"
                  THEN [stats EXCEPT !.completed_tasks = @ + 1,
                                     !.total_tasks = @ + 1]
                  ELSE [stats EXCEPT !.failed_tasks = @ + 1,
                                     !.total_tasks = @ + 1]
      /\ unfinished' = TaskDone
      /\ wpc' = [wpc EXCEPT ![w] = IF keyError \/ TaskDoneRaises
                                   THEN "sleep" ELSE "ready"]
      /\ wtask' = [wtask EXCEPT ![w] = NoTask]

\* mutant of IsCancelled: the worker does not look for a cancellation
IsCancelled_Never(t) == FALSE

\* the check "task_info.task_id not in self.running_tasks"
IsCancelled(t) == t \notin running_tasks

\* One iteration of the while loop, from its head (or from a getter future
\* that was given a result) to the next suspension or the next loop head.
\* What the payload does is decided when it is invoked: it returns or raises
\* without suspending, or it suspends ("suspend"); a "shielded" payload
\* suspends, catches the CancelledError it is sent, and never finishes.
worker_loop(w) ==
  /\ ~wcancel[w]
  /\ \/ wpc[w] \in {"ready", "sleep"}
     \/ wpc[w] = "get_wait" /\ woken[w]
  /\ IF wpc[w] # "get_wait" /\ ~is_running
     THEN /\ wpc' = [wpc EXCEPT ![w] = "done"]
          /\ stopWait' = Unwait(w)
          /\ UNCHANGED <<cfgVars, lockVars, govVars, waiter, is_running, queueVars, regVars, workers,
                         wtask, wcancel, woken, stopping, histVars>>
     ELSE IF heap = <<>>
     THEN /\ getters' = Append(getters, w)
          /\ wpc' = [wpc EXCEPT ![w] = "get_wait"]
          /\ woken' = [woken EXCEPT ![w] = FALSE]
          /\ UNCHANGED <<cfgVars, lockVars, govVars, waiter, is_running, heap, unfinished, regVars,
                         workers, wtask, wcancel, stopVars, histVars>>
     ELSE LET r == heappop(PrioOf(task), heap)
              t == r.item
          IN
          /\ heap' = r.heap
          /\ woken' = [woken EXCEPT ![w] = FALSE]
          /\ UNCHANGED <<cfgVars, lockVars, govVars, waiter, is_running, getters, nextId, workers,
                         wcancel, stopVars, issued, cancelled_pending>>
          /\ IF ~r.ok
             THEN \* heappop raised TypeError: outer handler, sleep(1)
                  /\ wpc' = [wpc EXCEPT ![w] = "sleep"]
                  /\ UNCHANGED <<unfinished, task, running_tasks,
                                 completed_tasks, stats, wtask, invoked,
                                 discarded>>
             ELSE IF IsCancelled(t)
             THEN \* cancelled since it was enqueued: discard
                  /\ unfinished' = TaskDone
                  /\ wpc' = [wpc EXCEPT ![w] = IF TaskDoneRaises
                                               THEN "sleep" ELSE "ready"]
                  /\ discarded' = discarded \cup {t}
                  /\ UNCHANGED <<task, running_tasks, completed_tasks,
                                 stats, wtask, invoked>>
             ELSE LET tk == [task EXCEPT ![t].status = "running",
                                         ![t].started_at = TRUE]
                  IN  /\ invoked' = [invoked EXCEPT ![t] = @ + 1]
                      /\ discarded' = discarded
                      /\ \E k \in payload_kinds :
                           IF k \in {"suspend", "shielded"}
                           THEN /\ task' = tk
                                /\ wpc' = [wpc EXCEPT ![w] =
                                             IF k = "suspend" THEN "exec"
                                             ELSE "exec_shielded"]
                                /\ wtask' = [wtask EXCEPT ![w] = t]
                                /\ UNCHANGED <<unfinished, running_tasks,
                                               completed_tasks, stats>>
                           ELSE Terminate(w, t, tk, k)

\* the suspended payload returns
payload_return(w) ==
  /\ wpc[w] = "exec"
  /\ ~wcancel[w]
  /\ Terminate(w, wtask[w], task, "return")
  /\ UNCHANGED <<cfgVars, lockVars, govVars, waiter, is_running, heap, getters, nextId, workers,
                 wcancel, woken, stopVars, histVars>>

\* the suspended payload raises an Exception
payload_raise(w) ==
  /\ wpc[w] = "exec"
  /\ ~wcancel[w]
  /\ Terminate(w, wtask[w], task, "raise")
  /\ UNCHANGED <<cfgVars, lockVars, govVars, waiter, is_running, heap, getters, nextId, workers,
                 wcancel, woken, stopVars, histVars>>

\* CancelledError is delivered to the worker where it is suspended.  It is
\* a BaseException: in the payload it passes the inner "except Exception",
\* runs the finally and leaves the loop, and the record is not touched.  A
\* ValueError of task_done() in that finally replaces it and is handled by
\* the outer "except Exception", which sleeps.  A shielded payload catches
\* it and goes on awaiting.
worker_cancelled(w) ==
  /\ wcancel[w]
  /\ wpc[w] \notin {"none", "done"}
  /\ wcancel' = [wcancel EXCEPT ![w] = FALSE]
  /\ woken' = [woken EXCEPT ![w] = FALSE]
  /\ IF wpc[w] = "exec_shielded"
     THEN UNCHANGED <<unfinished, wpc, stopWait, getters>>
     ELSE IF wpc[w] = "exec"
     THEN /\ unfinished' = TaskDone
          /\ wpc' = [wpc EXCEPT ![w] = IF TaskDoneRaises
                                       THEN "sleep" ELSE "done"]
          /\ stopWait' = IF TaskDoneRaises THEN stopWait ELSE Unwait(w)
          /\ getters' = getters
     ELSE /\ wpc' = [wpc EXCEPT ![w] = "done"]
          /\ stopWait' = Unwait(w)
          /\ unfinished' = unfinished
          /\ getters' = IF wpc[w] # "get_wait" THEN getters
                        ELSE IF ~woken[w] THEN RemoveGetter(getters, w)
                        ELSE IF heap # <<>> THEN WakeupGetters(getters)
                        ELSE getters
  /\ UNCHANGED <<cfgVars, lockVars, govVars, waiter, is_running, heap, regVars, workers, wtask,
                 stopping, histVars>>

\* ---- the statement view: locks --------------------------------------------
\* The same methods, one statement at a time, to follow _lock and
\* _stats_lock.  What a statement reads is not followed here: where the data
\* decide which way the code goes, every way is taken.  A label is the line
\* of the statement; "x" marks the normal exit of the `async with` opened at
\* that line, "e" its exit by an exception (__aexit__ releases the lock in
\* both).  Workers are not cancelled here (stop() is not called).  A
\* statement is
\*   kind    "acquire" / "release" of `lock`; "write" of the collections
\*           `writes`; "pass" (reads, branches, logging); "await" (a point
\*           where the coroutine may suspend); "return"; "end"
\*   op      the operation of the engine the statement belongs to
\*   next    the statements that can follow it
\*   raises  the statements that follow when it raises
Stmt(kind, lock, op, writes, next, raises) ==
  [kind |-> kind, lock |-> lock, op |-> op, writes |-> writes,
   next |-> next, raises |-> raises]

Acquire(lock, op, next) == Stmt("acquire", lock, op, {}, next, {})

Release(lock, op, next) == Stmt("release", lock, op, {}, next, {})

Pass(op, next) == Stmt("pass", "", op, {}, next, {})

\* _worker, lines 211-275
worker_stmt(label) ==
  CASE label = "211" -> Pass("loop", IF is_running THEN {"214"} ELSE {"275"})
    [] label = "214" -> Stmt("await", "", "dequeue", {"pending_queue"},
                             {"217"}, {"271"})
    [] label = "217" -> Acquire("_lock", "check", {"218"})
    [] label = "218" -> Pass("check", {"219", "217x"})
    [] label = "219" -> Stmt("write", "", "task_done", {"pending_queue"},
                             {"220"}, {"217e"})
    [] label = "220" -> Release("_lock", "check", {"211"})
    [] label = "217x" -> Release("_lock", "check", {"225"})
    [] label = "217e" -> Release("_lock", "check", {"271"})
    [] label = "225" -> Acquire("_lock", "running", {"228"})
    [] label = "228" -> Stmt("write", "", "running", {"running_tasks"},
                             {"225x"}, {})
    [] label = "225x" -> Release("_lock", "running", {"234"})
    [] label = "234" -> Stmt("await", "", "execute", {}, {"237"}, {"250"})
    [] label = "237" -> Acquire("_lock", "terminal", {"241"})
    [] label = "241" -> Stmt("write", "", "terminal", {"completed_tasks"},
                             {"242"}, {})
    [] label = "242" -> Stmt("write", "", "terminal", {"running_tasks"},
                             {"237x"}, {"237e"})
    [] label = "237x" -> Release("_lock", "terminal", {"244"})
    [] label = "237e" -> Release("_lock", "terminal", {"250"})
    [] label = "244" -> Acquire("_stats_lock", "terminal", {"245"})
    [] label = "245" -> Stmt("write", "", "terminal", {"stats"}, {"244x"}, {})
    [] label = "244x" -> Release("_stats_lock", "terminal", {"266"})
    [] label = "250" -> Pass("terminal", {"254"})
    [] label = "254" -> Acquire("_lock", "terminal", {"258"})
    [] label = "258" -> Stmt("write", "", "terminal", {"completed_tasks"},
                             {"259"}, {})
    [] label = "259" -> Stmt("write", "", "terminal", {"running_tasks"},
                             {"254x"}, {"254e"})
    [] label = "254x" -> Release("_lock", "terminal", {"261"})
    [] label = "254e" -> Release("_lock", "terminal", {"266e"})
    [] label = "261" -> Acquire("_stats_lock", "terminal", {"262"})
    [] label = "262" -> Stmt("write", "", "terminal", {"stats"}, {"261x"}, {})
    [] label = "261x" -> Release("_stats_lock", "terminal", {"266"})
    [] label = "266" -> Stmt("write", "", "task_done", {"pending_queue"},
                             {"211"}, {"271"})
    [] label = "266e" -> Stmt("write", "", "task_done", {"pending_queue"},
                              {"271"}, {"271"})
    [] label = "271" -> Pass("loop", {"273"})
    [] label = "273" -> Stmt("await", "", "loop", {}, {"211"}, {})
    [] OTHER -> Stmt("end", "", "loop", {}, {}, {})

\* add_task, lines 290-317: a plain function, it cannot suspend
add_task_stmt(label) ==
  CASE label = "290" -> Pass("submit", IF is_running THEN {"293"} ELSE {"317"})
    [] label = "293" -> Pass("submit", {"311", "317"})
    [] label = "311" -> Stmt("write", "", "submit", {"pending_queue"},
                             {"314"}, {"317"})
    [] label = "314" -> Stmt("write", "", "submit", {"running_tasks"},
                             {"317"}, {})
    [] OTHER -> Stmt("return", "", "submit", {}, {}, {})

\* get_task_status, lines 321-330
get_task_status_stmt(label) ==
  CASE label = "321" -> Acquire("_lock", "get_status", {"323"})
    [] label = "323" -> Pass("get_status", {"321x"})
    [] label = "321x" -> Release("_lock", "get_status", {"330"})
    [] OTHER -> Stmt("return", "", "get_status", {}, {}, {})

\* mutant of get_queue_stats_stmt: the locks are taken in the other order
get_queue_stats_stmt_Reversed(label) ==
  CASE label = "334" -> Acquire("_stats_lock", "get_stats", {"335"})
    [] label = "335" -> Acquire("_lock", "get_stats", {"336"})
    [] label = "336" -> Pass("get_stats", {"335x"})
    [] label = "335x" -> Release("_lock", "get_stats", {"334x"})
    [] label = "334x" -> Release("_stats_lock", "get_stats", {"342"})
    [] OTHER -> Stmt("return", "", "get_stats", {}, {}, {})

\* get_queue_stats, lines 334-342
get_queue_stats_stmt(label) ==
  CASE label = "334" -> Acquire("_lock", "get_stats", {"335"})
    [] label = "335" -> Acquire("_stats_lock", "get_stats", {"336"})
    [] label = "336" -> Pass("get_stats", {"335x"})
    [] label = "335x" -> Release("_stats_lock", "get_stats", {"334x"})
    [] label = "334x" -> Release("_lock", "get_stats", {"342"})
    [] OTHER -> Stmt("return", "", "get_stats", {}, {}, {})

\* cancel_task, lines 346-366
cancel_task_stmt(label) ==
  CASE label = "346" -> Acquire("_lock", "cancel", {"348"})
    [] label = "348" -> Pass("cancel", {"352", "346x"})
    [] label = "352" -> Stmt("write", "", "cancel", {"completed_tasks"},
                             {"353"}, {})
    [] label = "353" -> Stmt("write", "", "cancel", {"running_tasks"},
                             {"355"}, {})
    [] label = "355" -> Acquire("_stats_lock", "cancel", {"356"})
    [] label = "356" -> Stmt("write", "", "cancel", {"stats"}, {"355x"}, {})
    [] label = "355x" -> Release("_stats_lock", "cancel", {"346x"})
    [] label = "346x" -> Release("_lock", "cancel", {"366"})
    [] OTHER -> Stmt("return", "", "cancel", {}, {}, {})

\* clear_completed_tasks, lines 387-402
clear_completed_tasks_stmt(label) ==
  CASE label = "387" -> Acquire("_lock", "clear", {"388"})
    [] label = "388" -> Pass("clear", {"390", "400"})
    [] label = "390" -> Stmt("write", "", "clear", {"completed_tasks"},
                             {"387x"}, {})
    [] label = "400" -> Stmt("write", "", "clear", {"completed_tasks"},
                             {"387x"}, {})
    [] label = "387x" -> Release("_lock", "clear", {"402"})
    [] OTHER -> Stmt("return", "", "clear", {}, {}, {})

\* the statement coroutine c is at
StmtOf(c, label) ==
  IF c \in Procs THEN worker_stmt(label)
  ELSE CASE OpOf(c) = "add_task" -> add_task_stmt(label)
         [] OpOf(c) = "get_task_status" -> get_task_status_stmt(label)
         [] OpOf(c) = "get_queue_stats" -> get_queue_stats_stmt(label)
         [] OpOf(c) = "cancel_task" -> cancel_task_stmt(label)
         [] OTHER -> clear_completed_tasks_stmt(label)

\* the first statement of the method a caller calls
Entry(c) ==
  CASE OpOf(c) = "add_task" -> "290"
    [] OpOf(c) = "get_task_status" -> "321"
    [] OpOf(c) = "get_queue_stats" -> "334"
    [] OpOf(c) = "cancel_task" -> "346"
    [] OTHER -> "387"

\* c is suspended in Lock.acquire()
Waiting(c) == \E l \in Locks : \E i \in 1..Len(lock_waiters[l]) :
                lock_waiters[l][i] = c

\* The event loop runs a coroutine that is ready: a worker that start()
\* created, a caller that calls its method, a coroutine woken from an await,
\* or the first waiter of a lock that was released.
coro_resume(c) ==
  /\ running_coro = NoProc
  /\ running_coro' = c
  /\ IF Waiting(c)
     THEN \E l \in Locks :
            /\ lock_waiters[l] # <<>> /\ Head(lock_waiters[l]) = c
            /\ lock_owner[l] = NoProc
            /\ lock_owner' = [lock_owner EXCEPT ![l] = c]
            /\ lock_waiters' = [lock_waiters EXCEPT ![l] = Tail(@)]
            /\ \E n \in StmtOf(c, lpc[c]).next : lpc' = [lpc EXCEPT ![c] = n]
     ELSE /\ UNCHANGED <<lock_owner, lock_waiters>>
          /\ IF lpc[c] = "none"
             THEN /\ c \in Procs => c \in workers
                  /\ lpc' = [lpc EXCEPT ![c] = IF c \in Procs THEN "211"
                                               ELSE Entry(c)]
             ELSE /\ StmtOf(c, lpc[c]).kind = "await"
                  /\ \E n \in StmtOf(c, lpc[c]).next \cup
                              StmtOf(c, lpc[c]).raises :
                       lpc' = [lpc EXCEPT ![c] = n]
  /\ UNCHANGED <<cfgVars, govVars, is_running, queueVars, regVars,
                 workerVars, stopVars, waiter, histVars>>

\* The running coroutine executes the statement it is at.  Lock.acquire()
\* takes a free lock that nobody waits for and goes on without suspending;
\* otherwise the coroutine joins the waiters and suspends.
coro_step(c) ==
  /\ running_coro = c
  /\ LET st == StmtOf(c, lpc[c])
     IN  CASE st.kind = "acquire" ->
                IF lock_owner[st.lock] = NoProc /\ lock_waiters[st.lock] = <<>>
                THEN /\ lock_owner' = [lock_owner EXCEPT ![st.lock] = c]
                     /\ \E n \in st.next : lpc' = [lpc EXCEPT ![c] = n]
                     /\ UNCHANGED <<lock_waiters, running_coro>>
                ELSE /\ lock_waiters' =
                          [lock_waiters EXCEPT ![st.lock] = Append(@, c)]
                     /\ running_coro' = NoProc
                     /\ UNCHANGED <<lock_owner, lpc>>
           [] st.kind = "release" ->
                /\ lock_owner' = [lock_owner EXCEPT ![st.lock] = NoProc]
                /\ \E n \in st.next : lpc' = [lpc EXCEPT ![c] = n]
                /\ UNCHANGED <<lock_waiters, running_coro>>
           [] st.kind \in {"write", "pass"} ->
                /\ \E n \in st.next \cup st.raises :
                     lpc' = [lpc EXCEPT ![c] = n]
                /\ UNCHANGED <<lock_owner, lock_waiters, running_coro>>
           [] st.kind = "await" ->
                \/ /\ \E n \in st.next \cup st.raises :
                        lpc' = [lpc EXCEPT ![c] = n]
                   /\ UNCHANGED <<lock_owner, lock_waiters, running_coro>>
                \/ /\ running_coro' = NoProc
                   /\ UNCHANGED <<lock_owner, lock_waiters, lpc>>
           [] st.kind = "return" ->
                /\ lpc' = [lpc EXCEPT ![c] = "none"]
                /\ running_coro' = NoProc
                /\ UNCHANGED <<lock_owner, lock_waiters>>
           [] OTHER ->
                /\ lpc[c] # "ended"
                /\ lpc' = [lpc EXCEPT ![c] = "ended"]
                /\ running_coro' = NoProc
                /\ UNCHANGED <<lock_owner, lock_waiters>>
  /\ UNCHANGED <<cfgVars, govVars, is_running, queueVars, regVars,
                 workerVars, stopVars, waiter, histVars>>

\* ---- specifications -------------------------------------------------------
\* callers create at most `bound` task records
CanCreate(bound) == nextId <= bound \/ ~is_running \/ QueueFull

Next ==
  \/ start
  \/ \E c \in stop_callers : stop(c)
  \/ \E c \in stop_callers : stop_timeout(c)
  \/ \E c \in stop_callers : stop_return(c)
  \/ \E p \in Priorities : CanCreate(MaxTasks) /\ add_task(p)
  \/ \E id \in issued \cup {NoTask} : cancel_task(id)
  \/ clear_completed_tasks
  \/ \E w \in Procs : worker_loop(w)
  \/ \E w \in Procs : payload_return(w)
  \/ \E w \in Procs : payload_raise(w)
  \/ \E w \in Procs : worker_cancelled(w)
  \/ adaptive_monitor_enter
  \/ \E u \in usage_levels : adaptive_monitor(u[1], u[2])

Spec == Init /\ [][Next]_vars

\* Priority dispatch: one worker, a queue that never fills, payloads that
\* are plain functions which return.
InitDispatch == InitWith(1, MaxDispatchTasks, {"return"}, {1}, SteadyUsage)

NextDispatch ==
  \/ start
  \/ \E p \in DispatchPriorities : CanCreate(MaxDispatchTasks) /\ add_task(p)
  \/ \E w \in Procs : worker_loop(w)

SpecDispatch == InitDispatch /\ [][NextDispatch]_vars

\* Stop and restart: one worker per start(), a queue that never fills,
\* payloads that return at once or await, and callers that may call stop()
\* while an earlier call of stop() is still waiting for its workers.
InitRestart ==
  InitWith(1, MaxRestartTasks, {"return", "suspend"}, StopCalls,
           SteadyUsage)

NextRestart ==
  \/ start
  \/ \E c \in stop_callers : stop(c)
  \/ \E c \in stop_callers : stop_timeout(c)
  \/ \E c \in stop_callers : stop_return(c)
  \/ \E p \in Priorities : CanCreate(MaxRestartTasks) /\ add_task(p)
  \/ \E w \in Procs : worker_loop(w)
  \/ \E w \in Procs : payload_return(w)
  \/ \E w \in Procs : worker_cancelled(w)
  \/ adaptive_monitor_enter
  \/ \E u \in usage_levels : adaptive_monitor(u[1], u[2])

SpecRestart == InitRestart /\ [][NextRestart]_vars

\* Retention cleanup: both forms of clear_completed_tasks, among submissions,
\* cancellations and workers running payloads that return or await.
InitClear ==
  \E cap \in 1..MaxQueueSize :
    InitWith(MaxWorkers, cap, {"return", "suspend"}, {1}, SteadyUsage)

NextClear ==
  \/ start
  \/ \E p \in Priorities : CanCreate(MaxTasks) /\ add_task(p)
  \/ \E id \in issued : cancel_task(id)
  \/ clear_completed_tasks
  \/ \E expired \in SUBSET completed_tasks :
       clear_completed_tasks_older_than(expired)
  \/ \E w \in Procs : worker_loop(w)
  \/ \E w \in Procs : payload_return(w)

SpecClear == InitClear /\ [][NextClear]_vars

\* Waiting for a task: a caller polls with wait_for_task while tasks are
\* submitted, cancelled and executed.
WaitTimeouts == {PyNone} \cup {PyInt(n) : n \in 0..MaxWaitTimeout}

InitWait ==
  \E cap \in 1..MaxQueueSize :
    InitWith(MaxWorkers, cap, {"return", "suspend"}, {1}, SteadyUsage)

NextWait ==
  \/ start
  \/ \E p \in Priorities : CanCreate(MaxTasks) /\ add_task(p)
  \/ \E id \in issued : cancel_task(id)
  \/ \E w \in Procs : worker_loop(w)
  \/ \E w \in Procs : payload_return(w)
  \/ \E id \in issued \cup {NoTask}, timeout \in WaitTimeouts :
       wait_for_task(id, timeout)
  \/ wait_for_task_wakeup

SpecWait == InitWait /\ [][NextWait]_vars

\* The governor: the monitor samples usage on both sides of every threshold
\* while tasks are submitted and executed.
GovernorUsage ==
  {<<m, c>> : m \in {200, 629, 630, 900, 901},
              c \in {200, 559, 560, 800, 801}}

InitGovernor ==
  \E mw \in 1..MaxWorkers :
    InitWith(mw, MaxQueueSize, {"return", "suspend"}, {1}, GovernorUsage)

NextGovernor ==
  \/ start
  \/ \E p \in Priorities : CanCreate(MaxTasks) /\ add_task(p)
  \/ \E w \in Procs : worker_loop(w)
  \/ \E w \in Procs : payload_return(w)
  \/ adaptive_monitor_enter
  \/ \E u \in usage_levels : adaptive_monitor(u[1], u[2])

SpecGovernor == InitGovernor /\ [][NextGovernor]_vars

\* Shutdown: payloads await, and some of them catch CancelledError.  The
\* event loop runs every coroutine that is ready and fires every timer, so
\* worker steps and the steps of stop() are weakly fair; callers' calls and
\* the completion of a payload are not.
InitStop ==
  \E cap \in 1..MaxQueueSize :
    InitWith(MaxWorkers, cap, {"suspend", "shielded"}, {1}, SteadyUsage)

NextStop ==
  \/ start
  \/ \E c \in stop_callers : stop(c)
  \/ \E c \in stop_callers : stop_timeout(c)
  \/ \E c \in stop_callers : stop_return(c)
  \/ \E p \in Priorities : CanCreate(MaxTasks) /\ add_task(p)
  \/ \E w \in Procs : worker_loop(w)
  \/ \E w \in Procs : payload_return(w)
  \/ \E w \in Procs : worker_cancelled(w)

FairStop ==
  /\ \A w \in Procs : WF_vars(worker_loop(w))
  /\ \A w \in Procs : WF_vars(worker_cancelled(w))
  /\ \A c \in StopCalls : WF_vars(stop_timeout(c))
  /\ \A c \in StopCalls : WF_vars(stop_return(c))

SpecStop == InitStop /\ [][NextStop]_vars /\ FairStop

\* The governor among cancellations: as SpecGovernor, and callers cancel
\* tasks that are Pending or Running.
InitGovernorCancel ==
  \E mw \in 1..MaxWorkers :
    InitWith(mw, MaxQueueSize, {"return", "suspend"}, {1}, GovernorUsage)

NextGovernorCancel ==
  \/ start
  \/ \E p \in Priorities : CanCreate(MaxTasks) /\ add_task(p)
  \/ \E id \in issued : cancel_task(id)
  \/ \E w \in Procs : worker_loop(w)
  \/ \E w \in Procs : payload_return(w)
  \/ adaptive_monitor_enter
  \/ \E u \in usage_levels : adaptive_monitor(u[1], u[2])

SpecGovernorCancel == InitGovernorCancel /\ [][NextGovernorCancel]_vars

\* Construction with other worker counts: ImprovedTaskQueue(max_workers = n)
\* accepts any n >= 0 (asyncio.Semaphore rejects a negative one), and the
\* settings allow MAX_WORKERS up to 20.  An engine with more workers than
\* this model has coroutine slots is constructed and not started.
WorkerCounts == (0..MaxWorkers) \cup {MaxConcurrency + 1}

InitConfigured ==
  \E mw \in WorkerCounts :
    InitWith(mw, MaxQueueSize, {"return", "suspend"}, {1}, GovernorUsage)

NextConfigured ==
  \/ start
  \/ \E p \in Priorities : CanCreate(MaxTasks) /\ add_task(p)
  \/ \E w \in Procs : worker_loop(w)
  \/ \E w \in Procs : payload_return(w)
  \/ adaptive_monitor_enter
  \/ \E u \in usage_levels : adaptive_monitor(u[1], u[2])

SpecConfigured == InitConfigured /\ [][NextConfigured]_vars

\* A host where psutil is missing or breaks: on every tick at least one of
\* the two probes raises.  usage_levels holds pairs of probe outcomes here.
ProbeOutcomes ==
  {Raising("ImportError"), Raising("Exception")}
    \cup {Sampled(v) : v \in {200, 700, 950}}

FailingProbes ==
  {<<m, c>> : m \in ProbeOutcomes, c \in ProbeOutcomes} \
    {<<m, c>> : m \in {Sampled(v) : v \in {200, 700, 950}},
                c \in {Sampled(v) : v \in {200, 700, 950}}}

InitProbe ==
  \E mw \in 1..MaxWorkers :
    InitWith(mw, MaxQueueSize, {"return", "suspend"}, {1}, FailingProbes)

NextProbe ==
  \/ start
  \/ \E p \in Priorities : CanCreate(MaxTasks) /\ add_task(p)
  \/ \E w \in Procs : worker_loop(w)
  \/ \E w \in Procs : payload_return(w)
  \/ adaptive_monitor_enter
  \/ \E u \in usage_levels : monitor_tick(u[1], u[2])

SpecProbe == InitProbe /\ [][NextProbe]_vars

\* Locks: the workers and one caller of each public method, statement by
\* statement.
InitLocks ==
  InitWith(MaxWorkers, MaxQueueSize, {"return"}, {1}, SteadyUsage)

NextLocks ==
  \/ start
  \/ \E c \in Coros : coro_resume(c)
  \/ \E c \in Coros : coro_step(c)

SpecLocks == InitLocks /\ [][NextLocks]_vars

\* Progress: the engine is started and never stopped, callers submit and
\* cancel, and every payload terminates.  The event loop runs every worker
\* that is ready, so worker steps are weakly fair, and a suspended payload
\* returns or raises in the end; callers' calls are not fair.
InitProgress ==
  InitWith(MaxWorkers, MaxProgressTasks, {"return", "raise", "suspend"}, {1},
           SteadyUsage)

NextProgress ==
  \/ start
  \/ \E p \in Priorities : CanCreate(MaxProgressTasks) /\ add_task(p)
  \/ \E id \in issued : cancel_task(id)
  \/ \E w \in Procs : worker_loop(w)
  \/ \E w \in Procs : payload_return(w)
  \/ \E w \in Procs : payload_raise(w)

FairProgress ==
  /\ \A w \in Procs : WF_vars(worker_loop(w))
  /\ \A w \in Procs : WF_vars(payload_return(w) \/ payload_raise(w))

SpecProgress == InitProgress /\ [][NextProgress]_vars /\ FairProgress

\* Life cycle of the governor: the engine is started, stopped and started
\* again while the monitor ticks, with usage above the thresholds or low.
LifecycleUsage == {<<950, 950>>, <<200, 200>>}

InitLifecycle ==
  InitWith(MaxWorkers, 1, {"suspend"}, {1}, LifecycleUsage)

NextLifecycle ==
  \/ start
  \/ \E c \in stop_callers : stop(c)
  \/ \E c \in stop_callers : stop_timeout(c)
  \/ \E c \in stop_callers : stop_return(c)
  \/ \E p \in Priorities : CanCreate(1) /\ add_task(p)
  \/ \E w \in Procs : worker_loop(w)
  \/ \E w \in Procs : payload_return(w)
  \/ \E w \in Procs : worker_cancelled(w)
  \/ adaptive_monitor_enter
  \/ \E u \in usage_levels : adaptive_monitor(u[1], u[2])

SpecLifecycle == InitLifecycle /\ [][NextLifecycle]_vars

\* ---- claims ----------------------------------------------------------------
\* the task a worker obtains from pending_queue.get() in a step: it is
\* skipped as cancelled or its payload is invoked
Obtained(t) ==
  \/ invoked'[t] = invoked[t] + 1
  \/ t \in discarded' \ discarded

Created == 1..(nextId - 1)

Rank(st) ==
  CASE st = "none" -> 0
    [] st = "pending" -> 1
    [] st = "running" -> 2
    [] OTHER -> 3

\* C1: a task's status only moves forward through Pending, Running and one
\* of Completed/Failed/Cancelled, and a terminal status never changes again,
\* also when the task was cancelled while its payload was executing.
C1_TerminalIsFinal ==
  [][\A t \in TaskIds :
       /\ Rank(task'[t].status) >= Rank(task[t].status)
       /\ task[t].status \in Terminal => task'[t].status = task[t].status]_vars

\* tasks the callers hold an id of that are Pending or Running
Outstanding == {t \in issued : task[t].status \in {"pending", "running"}}

\* C2 (as stated): the number of Pending plus Running tasks never exceeds
\* queue_max_size.
C2_OutstandingBounded == Cardinality(Outstanding) <= queue_max_size

\* C2 (amended): the pending store never holds more than queue_max_size
\* entries, and on a running engine add_task is rejected with the queue-full
\* error exactly when the store holds queue_max_size entries; Running tasks
\* are not counted.
C2_StoreBounded ==
  /\ Len(heap) <= queue_max_size
  /\ is_running =>
       \A p \in Priorities :
         (AddTaskOutcome(p) = "queue_full") <=> (Len(heap) = queue_max_size)

\* the store is full while a task is Running: more than queue_max_size
\* tasks are outstanding
C2_Witness ==
  /\ is_running
  /\ Len(heap) = queue_max_size
  /\ \A p \in Priorities : AddTaskOutcome(p) = "queue_full"
  /\ Cardinality(Outstanding) > queue_max_size

\* only submissions have happened since the engine was created: every
\* record is Pending and still in the pending store
BackToBack ==
  /\ is_running
  /\ HeapSet(heap) = Created
  /\ \A t \in Created : task[t].status = "pending"

\* C3: N = queue_max_size back-to-back submissions on an engine holding no
\* tasks all succeed, whatever their priorities, and the next one is rejected
\* with the queue-full error.
C3_BackToBackSubmissions ==
  BackToBack =>
    /\ Created \subseteq issued
    /\ Created \subseteq running_tasks
    /\ Len(heap) = queue_max_size =>
         \A p \in Priorities : AddTaskOutcome(p) = "queue_full"

\* C4: whenever a worker dequeues from the pending store, the record it
\* obtains has the highest priority among the records enqueued then.
C4_HighestPriorityFirst ==
  [][\A t \in TaskIds :
       Obtained(t) => \A u \in HeapSet(heap) :
                         task[u].priority <= task[t].priority]_vars

\* C5: tasks of equal priority that are in the pending store together were
\* all submitted successfully, and they are dequeued in submission order.
C5_TiesFirstInFirstOut ==
  [][/\ \A t, u \in HeapSet(heap') :
          t # u /\ task'[t].priority = task'[u].priority => t \in issued'
     /\ \A t \in TaskIds :
          Obtained(t) =>
            \A u \in HeapSet(heap) :
              task[u].priority = task[t].priority => t <= u]_vars

\* C6: a record whose id add_task returned is visible to get_task_status at
\* once, with status Pending, and stays Pending until a worker moves it to
\* Running or cancel_task moves it to Cancelled.
C6_VisiblePendingUntilTouched ==
  [][\A t \in issued' :
       /\ t \notin issued => get_task_status(t)'.status = "pending"
       /\ task'[t].status = "pending" => get_task_status(t)' = task'[t]
       /\ t \in issued /\ task[t].status = "pending"
            /\ task'[t].status # "pending" =>
            \/ task'[t].started_at /\ invoked'[t] = invoked[t] + 1
            \/ task'[t].status = "cancelled" /\ t \in cancelled_pending'
     ]_vars

\* a submitted record that no worker has touched yet
C6_Witness ==
  /\ \E t \in issued : get_task_status(t).status = "pending"
  /\ \A t \in TaskIds : invoked[t] = 0
  /\ discarded = {}

\* ids a caller can pass to cancel_task: ids it was given, and an unknown id
CallerIds == issued \cup {NoTask}

StatusOf(id) == IF id \in TaskIds THEN task[id].status ELSE "none"

\* C7: cancel_task returns True exactly when the task is Pending or Running
\* at the call; for an unknown or terminal id it returns False and changes
\* nothing.
C7_CancelTrueIffActive ==
  [][\A id \in CallerIds :
       /\ CancelReturns(id) <=> StatusOf(id) \in {"pending", "running"}
       /\ ~CancelReturns(id) /\ cancel_task(id) =>
            UNCHANGED <<task, running_tasks, completed_tasks, stats>>]_vars

\* cancel_task returns False for a cancelled id, a completed id and an
\* unknown id
C7_Witness ==
  /\ \E a, b \in issued :
       /\ task[a].status = "cancelled" /\ ~CancelReturns(a)
       /\ task[b].status = "completed" /\ ~CancelReturns(b)
  /\ ~CancelReturns(NoTask)

\* C8: a task cancelled while Pending is Cancelled, has no started_at, and
\* its payload is never invoked: a worker that dequeues its entry skips it.
C8_CancelledPendingNeverRuns ==
  [][\A t \in cancelled_pending' :
       /\ task'[t].status = "cancelled"
       /\ ~task'[t].started_at
       /\ invoked'[t] = 0
       /\ t \in cancelled_pending /\ Obtained(t) => t \in discarded'
     ]_vars

\* a worker dequeued the entry of a task cancelled while Pending, and
\* skipped it
C8_Witness ==
  \E t \in cancelled_pending : t \in discarded /\ t \notin HeapSet(heap)

\* C9: when a payload raises, the task becomes Failed with the error text
\* and completed_at, moves to the completed set, the failed counter is
\* incremented, and the worker stays alive.
C9_PayloadErrorRecorded ==
  [][\A t \in TaskIds :
       task'[t].error = "payload_error" /\ task[t].error # "payload_error" =>
         /\ task'[t].status = "failed"
         /\ task'[t].completed_at
         /\ t \in completed_tasks' /\ t \notin running_tasks'
         /\ stats'.failed_tasks = stats.failed_tasks + 1
         /\ \A w \in Procs : wpc'[w] = "done" => wpc[w] = "done"
     ]_vars

\* C10: a worker that stop() finds executing a task is not interrupted: it
\* exits only after that task has left Running.
C10_StopDrainsRunningTask ==
  \A w \in Procs :
    wpc[w] = "done" /\ wtask[w] # NoTask => task[wtask[w]].status # "running"

\* C11: while the engine is stopped (is_running = False) no task goes from
\* Pending to Running and no payload is invoked, and a submission is
\* rejected and creates no record.
C11_NothingStartsWhileStopped ==
  [][~is_running =>
       /\ invoked' = invoked
       /\ \A t \in TaskIds :
            ~(task[t].status = "pending" /\ task'[t].status = "running")
       /\ \A p \in Priorities : AddTaskOutcome(p) = "not_running"
       /\ nextId' = nextId]_vars

\* C12: a call of stop() marks the engine stopped and eventually returns,
\* whatever the workers are doing: blocked on an empty pending store, or
\* executing a payload that never finishes; when the drain timeout expires
\* the call still returns.
C12_StopAlwaysReturns ==
  /\ [][\A c \in StopCalls :
         stopping[c] = "idle" /\ stopping'[c] # "idle" => ~is_running']_vars
  /\ \A c \in StopCalls : (stopping[c] # "idle") ~> (stopping[c] = "idle")

\* C13: clear_completed_tasks, with or without older_than, returns the
\* number of records it removed from the completed set.
C13_ClearReturnsCount ==
  [][completed_tasks' # completed_tasks /\ completed_tasks' \subseteq completed_tasks
       => clear_completed_tasks_returns =
            PyInt(Cardinality(completed_tasks \ completed_tasks'))]_vars

\* C14: clear_completed_tasks() removes every terminal record and no Pending
\* or Running record, and a removed id is absent for get_task_status from
\* then on, whatever workers and cancel_task do afterwards.
C14_ClearedStaysAbsent ==
  [][\A t \in issued :
       /\ completed_tasks # {} /\ completed_tasks' = {} =>
            /\ task[t].status \in Terminal => get_task_status(t)' = NoInfo
            /\ task[t].status \in {"pending", "running"} =>
                 get_task_status(t)' = task[t]
       /\ task[t].status \in Terminal /\ get_task_status(t) = NoInfo =>
            get_task_status(t)' = NoInfo]_vars

\* C15: wait_for_task returns a record only when the record is Completed,
\* Failed or Cancelled; it returns the sentinel (None) when the id is unknown
\* and when the timeout has elapsed, for every timeout value including 0;
\* and it changes nothing of the pending store, the running and completed
\* sets, the records and the counters.
C15_WaitForTask ==
  [][waiter' # waiter =>
       LET id == waiter'.task_id
           timeout == waiter'.timeout
           status == get_task_status(id)
           sentinel == waiter'.pc = "returned" /\ waiter'.returned = PyNone
       IN  /\ UNCHANGED <<queueVars, regVars>>
           /\ waiter'.returned # PyNone =>
                /\ waiter'.returned = PyDict(task[id])
                /\ task[id].status \in Terminal
           /\ status = NoInfo => sentinel
           /\ status # NoInfo /\ status.status \notin Terminal
                /\ timeout # PyNone /\ waiter'.elapsed >= timeout[1]
                => sentinel]_vars

\* the records callers hold an id of, by status
WithStatus(sts) == {t \in issued : task[t].status \in sts}

\* C16: get_queue_stats reports as pending the number of Pending records,
\* as running the number of Running records and as completed the number of
\* retained terminal records, so that no task is counted twice.
C16_StatsCountByStatus ==
  /\ get_queue_stats.pending_tasks = Cardinality(WithStatus({"pending"}))
  /\ get_queue_stats.running_tasks = Cardinality(WithStatus({"running"}))
  /\ get_queue_stats.completed_tasks =
       Cardinality({t \in WithStatus(Terminal) :
                      get_task_status(t) # NoInfo})

\* C17: the payload of a task is invoked at most once over the life of the
\* engine: not again after it failed, after it was cancelled, or after a
\* stop followed by a new start.
C17_AtMostOnce == \A t \in TaskIds : invoked[t] <= 1

\* a restarted engine with idle workers and an empty store, holding a task
\* that failed and a task whose worker was stopped while it was Running:
\* each was invoked once
C17_Witness ==
  /\ is_running
  /\ heap = <<>>
  /\ \A w \in workers : wpc[w] = "get_wait"
  /\ \E t, u \in issued :
       /\ task[t].status = "failed" /\ invoked[t] = 1
       /\ task[u].status = "running" /\ invoked[u] = 1
       /\ \A w \in Procs : wtask[w] # u

\* C18: a worker moves a task from Pending to Running only while fewer
\* tasks are Running than the governor allows (_current_concurrency).
C18_LimitGovernsExecution ==
  [][\A t \in TaskIds :
       invoked'[t] = invoked[t] + 1 =>
         Cardinality({u \in TaskIds : task[u].status = "running"})
           < current_concurrency]_vars

\* C19: on a tick where memory or CPU usage exceeds its threshold, the
\* allowed concurrency goes down by exactly 1 when it is above the minimum
\* and stays when it is at the minimum, whatever tasks there are.
\* In every state the tick decides on that value, and a tick that changes
\* the state stores it.
C19_ScaleDown ==
  /\ [](\A u \in usage_levels :
          u[1] > MemoryThreshold \/ u[2] > CpuThreshold =>
            /\ current_concurrency > MinConcurrency =>
                 adjust_concurrency(u[1], u[2]) = current_concurrency - 1
            /\ current_concurrency = MinConcurrency =>
                 adjust_concurrency(u[1], u[2]) = current_concurrency)
  /\ [][\A u \in usage_levels :
         /\ u[1] > MemoryThreshold \/ u[2] > CpuThreshold
         /\ adaptive_monitor(u[1], u[2])
         => /\ current_concurrency > MinConcurrency =>
                 current_concurrency' = current_concurrency - 1
            /\ current_concurrency = MinConcurrency =>
                 current_concurrency' = current_concurrency]_vars

\* overload has brought the concurrency of a two-worker engine down to the
\* minimum while a task is outstanding
C19_Witness ==
  /\ max_workers > MinConcurrency
  /\ current_concurrency = MinConcurrency
  /\ WithStatus({"pending", "running"}) # {}

\* C20: on a tick where no threshold is exceeded, memory and CPU usage are
\* both below 0.7 of their thresholds, upscaling is enabled and a task is
\* Pending or Running, the allowed concurrency goes up by exactly 1 when it
\* is below the maximum and stays when it is at the maximum.
\* In every state the tick decides on that value, and a tick that changes
\* the state stores it.
C20_ScaleUp ==
  /\ [](\A u \in usage_levels :
          /\ ~(u[1] > MemoryThreshold \/ u[2] > CpuThreshold)
          /\ u[1] * 10 < MemoryThreshold * 7 /\ u[2] * 10 < CpuThreshold * 7
          /\ UpscaleEnable
          /\ WithStatus({"pending", "running"}) # {}
          => /\ current_concurrency < MaxConcurrency =>
                  adjust_concurrency(u[1], u[2]) = current_concurrency + 1
             /\ current_concurrency = MaxConcurrency =>
                  adjust_concurrency(u[1], u[2]) = current_concurrency)
  /\ [][\A u \in usage_levels :
         /\ ~(u[1] > MemoryThreshold \/ u[2] > CpuThreshold)
         /\ u[1] * 10 < MemoryThreshold * 7 /\ u[2] * 10 < CpuThreshold * 7
         /\ UpscaleEnable
         /\ WithStatus({"pending", "running"}) # {}
         /\ adaptive_monitor(u[1], u[2])
         => /\ current_concurrency < MaxConcurrency =>
                 current_concurrency' = current_concurrency + 1
            /\ current_concurrency = MaxConcurrency =>
                 current_concurrency' = current_concurrency]_vars

\* low usage with a task outstanding has brought the concurrency up to the
\* maximum
C20_Witness ==
  /\ current_concurrency = MaxConcurrency
  /\ WithStatus({"pending", "running"}) # {}

\* no Task Record has status Pending or Running
NoWork == \A t \in TaskIds : task[t].status \notin {"pending", "running"}

\* C21: the governor never scales up without work: a tick taken while no
\* Task Record is Pending or Running leaves the allowed concurrency unchanged
\* or lower, whatever usage is sampled, also while the pending store still
\* holds entries of cancelled tasks.
C21_NoUpscaleWithoutWork ==
  [][\A u \in usage_levels :
       NoWork /\ adaptive_monitor(u[1], u[2]) =>
         current_concurrency' <= current_concurrency]_vars

\* C22: in every reachable state, from construction onward and for every
\* configured initial worker count, the allowed concurrency lies between the
\* minimum and the maximum, and a governor tick changes it by at most 1.
C22_ConcurrencyInRange ==
  /\ [](MinConcurrency <= current_concurrency
          /\ current_concurrency <= MaxConcurrency)
  /\ [][/\ current_concurrency' <= current_concurrency + 1
        /\ current_concurrency' >= current_concurrency - 1]_vars

\* the fraction the claim gives for a probe: the sampled one, or the default
OrDefault(probe, default) ==
  IF probe.raises = "none" THEN probe.value ELSE default

\* C23: when a resource probe is unavailable or fails, the tick does not
\* fail: it decides as the policy does on the defaults (memory 0.5, CPU 0.3)
\* in place of the failed probe, the governor loop stays alive, and no
\* worker, Task Record, queue entry or counter changes.
\* In every state the tick decides on that value, and a tick that changes
\* the state stores it.
C23_ProbeFailureFallsBack ==
  /\ [](\A u \in usage_levels :
          adjust_concurrency(get_memory_usage(u[1]), get_cpu_usage(u[2]))
            = adjust_concurrency(OrDefault(u[1], 500), OrDefault(u[2], 300)))
  /\ [][\A u \in usage_levels :
         monitor_tick(u[1], u[2]) =>
           /\ current_concurrency' =
                adjust_concurrency(OrDefault(u[1], 500), OrDefault(u[2], 300))
           /\ monitors' = monitors
           /\ UNCHANGED <<workerVars, queueVars, regVars, is_running,
                          histVars>>]_vars

\* ticks with failing probes have raised the concurrency above the initial
\* one while a task is outstanding
C23_Witness ==
  /\ monitors > 0
  /\ current_concurrency > max_workers
  /\ WithStatus({"pending", "running"}) # {}

\* the collections that hold the record of t
Holders(t) ==
  {c \in {"pending_queue", "running_tasks", "completed_tasks"} :
     \/ c = "pending_queue" /\ t \in HeapSet(heap)
     \/ c = "running_tasks" /\ t \in running_tasks
     \/ c = "completed_tasks" /\ t \in completed_tasks}

\* a call of clear_completed_tasks, in either form
ClearStep ==
  \/ clear_completed_tasks
  \/ \E expired \in SUBSET completed_tasks :
       clear_completed_tasks_older_than(expired)

\* C24 (as stated): every record that was submitted and not removed by
\* clear_completed is held by exactly one of pending_queue, running_tasks and
\* completed_tasks: never by two, and it leaves them only by a clear.
C24_ExactlyOneHolder ==
  /\ [](\A t \in issued : Cardinality(Holders(t)) <= 1)
  /\ [][\A t \in issued' :
          Holders(t)' = {} => t \in issued /\ (Holders(t) = {} \/ ClearStep)
       ]_vars

\* C24 (amended): every record that was submitted and not removed by
\* clear_completed is held by exactly one of running_tasks and
\* completed_tasks; it enters running_tasks at submission and leaves the two
\* only by a clear of completed_tasks.  The pending store holds, in addition,
\* the entry of each record not yet dequeued: a Pending record there is in
\* running_tasks as well.
C24_OneRegistryHolder ==
  /\ [](/\ running_tasks \cap completed_tasks = {}
        /\ \A t \in issued :
             t \in HeapSet(heap) /\ task[t].status = "pending" =>
               t \in running_tasks)
  /\ [][\A t \in issued' :
          /\ t \notin issued => t \in running_tasks'
          /\ t \in running_tasks => t \in running_tasks' \cup completed_tasks'
          /\ t \in completed_tasks /\ t \notin completed_tasks' =>
               ClearStep /\ t \notin running_tasks'
       ]_vars

\* a Pending record is held by the pending store and the running set, a
\* terminal one by the completed set, while another record has been cleared
C24_Witness ==
  \E a, b \in issued :
    /\ Holders(a) = {"pending_queue", "running_tasks"}
    /\ task[a].status = "pending"
    /\ Holders(b) = {}
    /\ task[b].status \in Terminal

\* C25: a record never has both a result and an error; it has neither while
\* Pending or Running and neither when Cancelled; and an error is populated
\* only on a Failed record, where it is the text of the error the payload
\* raised.
C25_ResultErrorExclusive ==
  \A t \in TaskIds :
    /\ ~(task[t].result # "none" /\ task[t].error # "none")
    /\ task[t].status \in {"pending", "running", "cancelled"} =>
         task[t].result = "none" /\ task[t].error = "none"
    /\ task[t].error # "none" =>
         task[t].status = "failed" /\ task[t].error = "payload_error"

\* the lock that guards a collection: _lock the pending store and the two
\* registry maps, _stats_lock the counters
LockOfCollection(x) == IF x = "stats" THEN "_stats_lock" ELSE "_lock"

\* C26: every operation that modifies the pending store, the running set,
\* the completed set or the counters (submit, the worker's Running and
\* terminal transitions, cancel, clear_completed) does so while holding the
\* corresponding lock, so that nobody else holds that lock then.
C26_ModifyUnderLock ==
  \A c \in Coros :
    running_coro = c =>
      LET st == StmtOf(c, lpc[c])
      IN  st.kind = "write"
            /\ st.op \in {"submit", "running", "terminal", "cancel", "clear"}
            => \A x \in st.writes : lock_owner[LockOfCollection(x)] = c

\* the locks coroutine c holds
Held(c) == {l \in Locks : lock_owner[l] = c}

\* c is at the acquire of lock l: about to execute it, or suspended in it
Acquiring(c, l) ==
  /\ running_coro = c \/ Waiting(c)
  /\ StmtOf(c, lpc[c]).kind = "acquire"
  /\ StmtOf(c, lpc[c]).lock = l

\* C30: the two locks are only nested in the order _lock then _stats_lock
\* and never re-acquired by their holder; a lock is released on every path
\* out of its section, also when the section raises, so a coroutine that is
\* suspended outside Lock.acquire, has returned, or is in an exception
\* handler holds none; and no state is reached where a coroutine waits for a
\* lock whose holder waits for a lock too, or where workers, cancel,
\* get_status, get_stats and clear_completed all wait.
C30_LocksDeadlockFree ==
  /\ \A c \in Coros :
       /\ Acquiring(c, "_lock") => Held(c) = {}
       /\ Acquiring(c, "_stats_lock") => "_stats_lock" \notin Held(c)
       /\ running_coro # c /\ ~Waiting(c) => Held(c) = {}
       /\ lpc[c] \in {"250", "266e", "271", "273"} => Held(c) = {}
       /\ \A l \in Locks :
            Acquiring(c, l) /\ Waiting(c) /\ lock_owner[l] # NoProc =>
              ~Waiting(lock_owner[l])
  /\ ~(\A c \in Coros : OpOfCoro(c) # "add_task" => Waiting(c))

\* a caller holds _lock and, nested in it, _stats_lock, while a worker is
\* suspended in a payload and the other one sleeps in its error handler,
\* which it reached through a lock section that raised
C30_Witness ==
  /\ \E c \in CallerProcs : Held(c) = Locks
  /\ \E w \in Procs : lpc[w] = "234"
  /\ \E w \in Procs : lpc[w] = "273"

\* C27: on an engine that stays running, with finitely many submissions and
\* payloads that terminate, every submitted task eventually is Completed,
\* Failed or Cancelled under fair scheduling of the workers, also when other
\* tasks fail or are cancelled while running.
C27_EveryTaskFinishes ==
  \A t \in TaskIds : (t \in issued) ~> (task[t].status \in Terminal)

\* worker coroutines that have not ended
LiveWorkers == {p \in Procs : wpc[p] \notin {"none", "done"}}

\* C28: stop ends the governor loop its start created: once stop has
\* returned, no tick changes the allowed concurrency while the engine is
\* stopped; and while the engine is running, whatever starts and stops came
\* before, at most one governor loop and exactly max_workers worker loops
\* are alive.
C28_StopEndsGovernor ==
  /\ [](is_running =>
          /\ monitors + monitors_created <= 1
          /\ Cardinality(LiveWorkers) = max_workers)
  /\ [][~is_running /\ (\A c \in StopCalls : stopping[c] = "idle") =>
          current_concurrency' = current_concurrency]_vars

\* C29: the lifetime counters agree with the outcomes: total_tasks is the sum
\* of completed_tasks, failed_tasks and cancelled_tasks, and each of the three
\* equals the number of records whose status is the one it counts.
C29_CountersAgreeWithOutcomes ==
  /\ stats.total_tasks =
       stats.completed_tasks + stats.failed_tasks + stats.cancelled_tasks
  /\ stats.completed_tasks = Cardinality(WithStatus({"completed"}))
  /\ stats.failed_tasks = Cardinality(WithStatus({"failed"}))
  /\ stats.cancelled_tasks = Cardinality(WithStatus({"cancelled"}))

====
